---- MODULE Spec2Model ----
(***************************************************************************)
(* A model of sud.c, a Sudoku solver: read_grid builds the grid of clues   *)
(* from standard input one character at a time, try() propagates the       *)
(* clues with reduce()/reduce_grid() and guesses with backtracking.         *)
(* A cell is the integer bit field of the source: bit 0 is the SOLVED flag, *)
(* bits 1..9 are the values still possible.                                 *)
(***************************************************************************)
EXTENDS Integers, Sequences, FiniteSets, TLC

ROWS == 9
COLS == 9
R_ROWS == 3
R_COLS == 3
MAX_VAL == 9
O_CELL == 1022
SOLVED == 1

(* character codes of the input stream *)
NUL == 0
NL == 10
SPACE == 32
HYPHEN == 45
CH_0 == 48
CH_1 == 49
CH_9 == 57
EOF == -1

RowIdx == 0 .. (ROWS - 1)
ColIdx == 0 .. (COLS - 1)
Values == 1 .. MAX_VAL

(***************************************************************************)
(* Bit operations of C on the non-negative ints the program holds.          *)
(***************************************************************************)
Pow2(k) == 2 ^ k

(* x & 1<<k, as 0 or 1 *)
Bit(x, k) == (x \div Pow2(k)) % 2

(* x & SOLVED *)
AndSolved(x) == x % 2

(* x | SOLVED *)
OrSolved(x) == IF x % 2 = 1 THEN x ELSE x + 1

(* bit k of a & b, in its place *)
Both(a, b, k) == Pow2(k) * Bit(a, k) * Bit(b, k)

(* a & b for a b that has no bit outside bits 1..9, as O_CELL and any       *)
(* x & O_CELL have                                                          *)
AndValues(a, b) ==
  Both(a, b, 1) + Both(a, b, 2) + Both(a, b, 3) + Both(a, b, 4) + Both(a, b, 5)
  + Both(a, b, 6) + Both(a, b, 7) + Both(a, b, 8) + Both(a, b, 9)

(* a & ~m for an m that has no bit outside bits 1..9 *)
AndNot(a, m) == a - AndValues(a, m)

(* the element of a set of one: {e(x) : x \in {v}} computes v once for all  *)
(* its uses in e                                                            *)
The(S) == CHOOSE x \in S : TRUE

(* number of possible values (bits 1..MAX_VAL) of a cell *)
Poss(cell) == Cardinality({k \in Values : Bit(cell, k) = 1})

(***************************************************************************)
(* Grids.                                                                   *)
(***************************************************************************)
grid_zero ==
  [cells |-> [i \in RowIdx |-> [j \in ColIdx |-> O_CELL]], solved_counter |-> 0]

(* mutant: the two indices swapped in the copy *)
copy_grid_transposed(sg) ==
  [cells |-> [i \in RowIdx |-> [j \in ColIdx |-> sg.cells[j][i]]],
   solved_counter |-> sg.solved_counter]

copy_grid(sg) ==
  [cells |-> [i \in RowIdx |-> [j \in ColIdx |-> sg.cells[i][j]]],
   solved_counter |-> sg.solved_counter]

set_value(value) == OrSolved(Pow2(value))

get_value(cell) ==
  IF AndSolved(cell) # 0
  THEN IF \E i \in Values : Bit(cell, i) = 1
       THEN CHOOSE i \in Values :
              Bit(cell, i) = 1 /\ \A h \in Values : h < i => Bit(cell, h) = 0
       ELSE MAX_VAL + 1
  ELSE 0

mark_if_solved(cell) ==
  The({IF Poss(c) = 1 THEN OrSolved(c) ELSE c : c \in {cell}})

(***************************************************************************)
(* reduce(g, row, column). A pass of the two loops reads and writes the one *)
(* cell (i, j) it is at, and the source cell is skipped, so what a pass     *)
(* does is a function of the grid as it was at the call. The passes run in  *)
(* row-major order, pass number i*COLS + j, up to the first that returns -1.*)
(***************************************************************************)
(* mutant: the column is not looked at *)
IsPeerNoColumn(row, column, i, j) ==
  \/ i = row
  \/ (row \div R_ROWS = i \div R_ROWS) /\ (column \div R_COLS = j \div R_COLS)

IsPeer(row, column, i, j) ==
  \/ i = row
  \/ j = column
  \/ (row \div R_ROWS = i \div R_ROWS) /\ (column \div R_COLS = j \div R_COLS)

(* the counter after a cell went from prev to new *)
CountSolved(counter, prev, new) ==
  IF new # prev /\ AndSolved(new) # 0 THEN counter + 1 ELSE counter

(* mutant: a cell left with the flag alone is not seen as invalid *)
IsInvalidZeroOnly(cell) == cell = 0

(* the test that ends reduce with -1 *)
IsInvalid(cell) == cell \in {0, 1}

(* the pass at (i, j) enters the if: a peer of the source, with bits left   *)
(* under the mask. mask here is source_cell & O_CELL, the bits the C mask,  *)
(* its complement, clears.                                                  *)
Enters(g, row, column, mask, i, j) ==
  /\ ~(i = row /\ j = column)
  /\ IsPeer(row, column, i, j)
  /\ AndNot(g.cells[i][j], mask) # 0

(* what the pass at (i, j) stores in the cell *)
Reduced(g, mask, i, j) == mark_if_solved(AndNot(g.cells[i][j], mask))

PassNo(i, j) == i * COLS + j

(* the passes that return -1, and the number of the last pass that runs *)
Stops(g, row, column, mask) ==
  {n \in 0 .. (ROWS * COLS - 1) :
     /\ Enters(g, row, column, mask, n \div COLS, n % COLS)
     /\ IsInvalid(Reduced(g, mask, n \div COLS, n % COLS))}

LastPass(stops) ==
  IF stops = {} THEN ROWS * COLS ELSE CHOOSE n \in stops : \A m \in stops : n <= m

(* the cells once the loops have run up to pass last *)
cells_upto(g, row, column, mask, last) ==
  [i \in RowIdx |-> [j \in ColIdx |->
     IF PassNo(i, j) <= last /\ Enters(g, row, column, mask, i, j)
     THEN Reduced(g, mask, i, j) ELSE g.cells[i][j]]]

(* the cells that differ, those that changed++ counted *)
Changed(g, cells) == {c \in RowIdx \X ColIdx : cells[c[1]][c[2]] # g.cells[c[1]][c[2]]}

(* the grid and the value returned, the loops having run up to pass last *)
reduce_upto(g, row, column, mask, last) ==
  The({[g |-> [cells |-> cells,
               solved_counter |->
                 g.solved_counter
                 + Cardinality({c \in Changed(g, cells) :
                      CountSolved(0, g.cells[c[1]][c[2]], cells[c[1]][c[2]]) = 1})],
        r |-> IF last = ROWS * COLS THEN Cardinality(Changed(g, cells)) ELSE -1] :
         cells \in {cells_upto(g, row, column, mask, last)}})

reduce_loops(g, row, column, mask) ==
  The({reduce_upto(g, row, column, mask, last) :
         last \in {LastPass(Stops(g, row, column, mask))}})

reduce(g, row, column) ==
  LET source_cell == g.cells[row][column]
  IN IF AndSolved(source_cell) = 0
     THEN [g |-> g, r |-> 0]
     ELSE The({reduce_loops(g, row, column, mask) :
                 mask \in {AndValues(source_cell, O_CELL)}})

(***************************************************************************)
(* choose_target_cell(g). t starts at ChooseInitT and a pass of the loops   *)
(* takes its cell as the target when the cell is unsolved and has fewer     *)
(* possibles than t: the target returned is the cell of the last pass that  *)
(* took one, (0, 0) when none did.                                          *)
(***************************************************************************)
ChooseInitT == MAX_VAL

(* the value of t when the loops reach pass n: the least count met so far *)
TBefore(g, n) ==
  LET met == {Poss(g.cells[m \div COLS][m % COLS]) :
                m \in {h \in 0 .. (n - 1) : AndSolved(g.cells[h \div COLS][h % COLS]) = 0}}
      low == {a \in met : a < ChooseInitT}
  IN IF low = {} THEN ChooseInitT ELSE CHOOSE a \in low : \A b \in low : a <= b

(* the pass at n makes its cell the target *)
Takes(g, n) ==
  /\ AndSolved(g.cells[n \div COLS][n % COLS]) = 0
  /\ Poss(g.cells[n \div COLS][n % COLS]) < TBefore(g, n)

LastOf(taking) == CHOOSE n \in taking : \A m \in taking : m <= n

choose_target_cell(g) ==
  The({IF taking = {} THEN <<0, 0>>
       ELSE <<LastOf(taking) \div COLS, LastOf(taking) % COLS>> :
         taking \in {{n \in 0 .. (ROWS * COLS - 1) : Takes(g, n)}}})

(***************************************************************************)
(* The state of the program.                                                *)
(***************************************************************************)
VARIABLES
  pc,        \* where main is: "read_grid", "read_ret", "try", "exit"
  stdin,     \* the characters of standard input not yet read
  rd,        \* read_grid's locals i, j
  ig,        \* main's input grid
  og,        \* main's output grid
  stack,     \* the active calls of try, the innermost last
  ret,       \* <<v>>: the value the last call returned, not yet used; else << >>
  report,    \* what main printed last
  exit_code, \* the status main exited with, -1 while it runs
  og_writes, \* how many times copy_grid(&wg, og) ran
  text,      \* the whole of standard input, as it was at the start
  probe      \* the result of a direct call of choose_target_cell on ig

vars == <<pc, stdin, rd, ig, og, stack, ret, report, exit_code, og_writes, text, probe>>

(***************************************************************************)
(* Input texts: nine lines of nine characters, and changes of one of them.  *)
(***************************************************************************)
ClueChar(d) == IF d = 0 THEN HYPHEN ELSE CH_0 + d

RECURSIVE LinesText(_, _)
LinesText(rows, r) ==
  IF r > Len(rows) THEN << >>
  ELSE [c \in 1 .. Len(rows[r]) |-> ClueChar(rows[r][c])] \o <<NL>> \o LinesText(rows, r + 1)

Text(rows) == LinesText(rows, 1)

Replace(t, pos, ch) == [t EXCEPT ![pos] = ch]
Insert(t, pos, ch) == SubSeq(t, 1, pos - 1) \o <<ch>> \o SubSeq(t, pos, Len(t))

(* a complete valid grid *)
PFull ==
  << <<1,2,3,4,5,6,7,8,9>>, <<4,5,6,7,8,9,1,2,3>>, <<7,8,9,1,2,3,4,5,6>>,
     <<2,3,4,5,6,7,8,9,1>>, <<5,6,7,8,9,1,2,3,4>>, <<8,9,1,2,3,4,5,6,7>>,
     <<3,4,5,6,7,8,9,1,2>>, <<6,7,8,9,1,2,3,4,5>>, <<9,1,2,3,4,5,6,7,8>> >>

(* solved by propagation alone *)
PEasy ==
  << <<1,2,3,4,0,6,7,8,9>>, <<4,0,0,7,8,9,1,2,3>>, <<7,8,9,1,2,3,0,5,6>>,
     <<2,3,4,0,0,7,8,9,1>>, <<0,6,7,8,0,1,2,3,4>>, <<8,9,1,2,3,4,5,0,7>>,
     <<3,4,0,6,7,8,9,1,2>>, <<6,7,8,9,1,0,3,4,5>>, <<9,1,2,3,4,5,6,7,0>> >>

(* solved after a guess that fails and a guess that succeeds *)
PHard ==
  << <<0,0,3,0,0,0,0,8,0>>, <<0,0,6,0,8,9,1,2,0>>, <<7,0,0,0,2,3,4,0,0>>,
     <<2,3,0,0,0,0,0,0,0>>, <<0,0,7,8,0,1,0,3,0>>, <<0,0,1,2,3,0,5,6,0>>,
     <<3,0,0,6,7,8,9,1,0>>, <<6,0,0,0,0,2,0,0,5>>, <<9,1,0,0,0,0,6,0,0>> >>

(* no two equal clues meet, and yet no completion: every guess fails *)
PNoSol ==
  << <<0,2,3,0,5,6,0,0,9>>, <<0,0,6,0,0,9,1,0,0>>, <<0,0,9,1,0,0,0,5,6>>,
     <<2,0,4,0,6,0,8,0,1>>, <<5,6,7,8,9,1,2,4,0>>, <<8,9,1,0,3,0,0,6,0>>,
     <<3,4,5,6,0,0,0,1,2>>, <<0,7,0,9,0,2,0,0,0>>, <<9,0,2,3,0,5,0,7,0>> >>

(* solved two guesses deep, after a guess that fails *)
PDeep ==
  << <<0,0,0,0,5,6,0,8,0>>, <<0,5,6,0,8,0,1,2,0>>, <<7,0,9,0,0,0,4,0,6>>,
     <<2,0,0,5,6,0,8,9,0>>, <<0,0,0,0,9,0,0,3,0>>, <<0,0,0,0,3,4,0,0,7>>,
     <<0,4,0,6,0,8,9,0,2>>, <<0,7,0,0,1,0,3,4,5>>, <<9,1,0,0,0,5,6,0,0>> >>

Puzzles == {PFull, PEasy, PHard, PDeep, PNoSol}

(* bounds of the input family: the places where a character is replaced,    *)
(* a letter as the sample of the characters read_grid has no branch for,    *)
(* and the column up to which a line that outruns its row is followed       *)
NumMutPos == 4
MutStride == 11
CH_X == 120
MaxJ == 12

(* the character after '9' *)
CH_COLON == CH_9 + 1

MutPositions == {1 + MutStride * n : n \in 0 .. (NumMutPos - 1)}
MutChars == {CH_1, CH_1 + 4, CH_9, CH_0, CH_COLON, CH_X, SPACE, NUL, NL}
LineEnds == {COLS + 1, 2 * (COLS + 1), ROWS * (COLS + 1)}
TruncLens == {0, COLS - 2, COLS, ROWS * (COLS + 1) - 1}

Inputs ==
  {Text(p) : p \in Puzzles}
  \cup {Replace(Text(PEasy), pos, ch) : pos \in MutPositions, ch \in MutChars}
  \cup {Insert(Text(PEasy), pos, ch) : pos \in LineEnds, ch \in {CH_X, CH_1, SPACE}}
  \cup {SubSeq(Text(PEasy), 1, n) : n \in TruncLens}

(***************************************************************************)
(* main, read_grid and try as a state machine.                              *)
(***************************************************************************)
Init ==
  /\ stdin \in Inputs
  /\ text = stdin
  /\ pc = "read_grid"
  /\ rd = [i |-> 0, j |-> 0]
  /\ ig = grid_zero
  /\ og = grid_zero
  /\ stack = << >>
  /\ ret = << >>
  /\ report = "none"
  /\ exit_code = -1
  /\ og_writes = 0
  /\ probe = << >>

(* getchar(): the next character, EOF once the input is used up *)
getchar == IF stdin = << >> THEN EOF ELSE Head(stdin)
AfterGetchar == IF stdin = << >> THEN << >> ELSE Tail(stdin)

EndsRow(in) == in = NUL \/ in = NL
Advances(in, j) == in = SPACE \/ in = HYPHEN \/ j >= COLS
(* mutant: '0' taken for a clue *)
IsClueFromZero(in) == in >= CH_0 /\ in <= CH_9

IsClue(in) == in >= CH_1 /\ in <= CH_9

(* one iteration of read_grid's while loop, with what follows a row's end *)
ReadChar ==
  /\ pc = "read_grid"
  /\ LET in == getchar
     IN /\ stdin' = AfterGetchar
        /\ IF EndsRow(in)
           THEN /\ ig' = ig
                /\ IF rd.i + 1 < ROWS
                   THEN /\ rd' = [i |-> rd.i + 1, j |-> 0]
                        /\ UNCHANGED <<pc, ret>>
                   ELSE /\ rd' = [rd EXCEPT !.i = rd.i + 1]
                        /\ pc' = "read_ret"
                        /\ ret' = <<1>>
           ELSE IF Advances(in, rd.j)
           THEN /\ rd.j < MaxJ
                /\ rd' = [rd EXCEPT !.j = rd.j + 1]
                /\ UNCHANGED <<ig, pc, ret>>
           ELSE IF IsClue(in)
           THEN /\ ig' = [cells |-> [ig.cells EXCEPT ![rd.i][rd.j] = set_value(in - CH_0)],
                          solved_counter |-> ig.solved_counter + 1]
                /\ rd' = [rd EXCEPT !.j = rd.j + 1]
                /\ UNCHANGED <<pc, ret>>
           ELSE /\ pc' = "read_ret"
                /\ ret' = <<0>>
                /\ UNCHANGED <<ig, rd>>
  /\ UNCHANGED <<og, stack, report, exit_code, og_writes, text, probe>>

(* a call of try(g, og): the locals, wg already copied from the argument.  *)
(* r, tr, tc, wc and k hold no value in C until assigned; nothing reads     *)
(* them before, and they start at 0 here.                                   *)
NewFrame(g) ==
  [wg |-> copy_grid(g), fpc |-> "reduce", i |-> 0, j |-> 0, rg |-> 0,
   r |-> 0, reductions |-> 0, tr |-> 0, tc |-> 0, wc |-> 0, k |-> 0]

(* main after read_grid returned *)
MainAfterRead ==
  /\ pc = "read_ret"
  /\ IF ret = <<0>>
     THEN /\ report' = "invalid"
          /\ exit_code' = 1
          /\ pc' = "exit"
          /\ stack' = stack
     ELSE /\ report' = "input"
          /\ exit_code' = exit_code
          /\ pc' = "try"
          /\ stack' = <<NewFrame(ig)>>
  /\ ret' = << >>
  /\ UNCHANGED <<stdin, rd, ig, og, og_writes, text, probe>>

Top == stack[Len(stack)]
Pop == SubSeq(stack, 1, Len(stack) - 1)
SetTop(f) == [stack EXCEPT ![Len(stack)] = f]

Running(where) == pc = "try" /\ stack # << >> /\ Top.fpc = where

(* the frame after reduce(&wg, i, j) inside reduce_grid, and after          *)
(* reduce_grid returned to try's do-while when that was the last cell       *)
AfterReduce(f, res) ==
  IF res.r = -1
  THEN [f EXCEPT !.wg = res.g, !.r = -1, !.fpc = "failed"]
  ELSE IF f.j + 1 < COLS
  THEN [f EXCEPT !.wg = res.g, !.rg = f.rg + res.r, !.j = f.j + 1]
  ELSE IF f.i + 1 < ROWS
  THEN [f EXCEPT !.wg = res.g, !.rg = f.rg + res.r, !.i = f.i + 1, !.j = 0]
  ELSE [f EXCEPT !.wg = res.g, !.rg = 0, !.i = 0, !.j = 0,
                 !.r = f.rg + res.r, !.reductions = f.reductions + f.rg + res.r,
                 !.fpc = IF f.rg + res.r > 0 THEN "reduce" ELSE "check"]

ReduceStep ==
  /\ Running("reduce")
  /\ \E f \in {Top} : \E res \in {reduce(f.wg, f.i, f.j)} : stack' = SetTop(AfterReduce(f, res))
  /\ UNCHANGED <<pc, stdin, rd, ig, og, ret, report, exit_code, og_writes, text, probe>>

(* if (r == -1) return 0; *)
TryFail ==
  /\ Running("failed")
  /\ stack' = Pop
  /\ ret' = <<0>>
  /\ UNCHANGED <<pc, stdin, rd, ig, og, report, exit_code, og_writes, text, probe>>

(* mutant: the target cell is not counted as solved *)
AfterChooseNoCount(f, t) ==
  [f EXCEPT !.tr = t[1], !.tc = t[2], !.wc = f.wg.cells[t[1]][t[2]],
            !.k = 1, !.fpc = "guess"]

(* the frame once the target cell is chosen and the guessing is set up *)
AfterChoose(f, t) ==
  [f EXCEPT !.tr = t[1], !.tc = t[2], !.wc = f.wg.cells[t[1]][t[2]],
            !.wg = [f.wg EXCEPT !.solved_counter = f.wg.solved_counter + 1],
            !.k = 1, !.fpc = "guess"]

IsComplete(g) == g.solved_counter = ROWS * COLS

(* mutant: the working grid is copied into og before the test *)
CheckSolvedCopiesFirst ==
  /\ Running("check")
  /\ og' = copy_grid(Top.wg)
  /\ IF IsComplete(Top.wg)
     THEN /\ og_writes' = og_writes + 1
          /\ stack' = Pop
          /\ ret' = <<1>>
     ELSE /\ \E t \in {choose_target_cell(Top.wg)} : stack' = SetTop(AfterChoose(Top, t))
          /\ UNCHANGED <<og_writes, ret>>
  /\ UNCHANGED <<pc, stdin, rd, ig, report, exit_code, text, probe>>

CheckSolved ==
  /\ Running("check")
  /\ IF IsComplete(Top.wg)
     THEN /\ og' = copy_grid(Top.wg)
          /\ og_writes' = og_writes + 1
          /\ stack' = Pop
          /\ ret' = <<1>>
     ELSE /\ \E t \in {choose_target_cell(Top.wg)} : stack' = SetTop(AfterChoose(Top, t))
          /\ UNCHANGED <<og, og_writes, ret>>
  /\ UNCHANGED <<pc, stdin, rd, ig, report, exit_code, text, probe>>

(* mutant: every value is guessed, possible or not *)
GuessesAll(f) == f.k .. MAX_VAL

(* the values the for loop still has to guess, from k on *)
Guesses(f) == {v \in f.k .. MAX_VAL : Bit(f.wc, v) = 1}

Least(S) == CHOOSE v \in S : \A w \in S : v <= w

(* the frame with the target cell set to the value guessed *)
WithGuess(f, v) ==
  [f EXCEPT !.wg = [f.wg EXCEPT !.cells[f.tr][f.tc] = set_value(v)],
            !.k = v, !.fpc = "call"]

Guess ==
  /\ Running("guess")
  /\ IF Guesses(Top) = {}
     THEN /\ stack' = Pop
          /\ ret' = <<0>>
     ELSE /\ \E f \in {WithGuess(Top, Least(Guesses(Top)))} :
               stack' = Append(SetTop(f), NewFrame(f.wg))
          /\ ret' = ret
  /\ UNCHANGED <<pc, stdin, rd, ig, og, report, exit_code, og_writes, text, probe>>

(* mutant: the loop ends at the first guess that fails *)
NextGuessGivesUp(f) == [f EXCEPT !.k = MAX_VAL + 1, !.fpc = "guess"]

(* the caller's frame after the try it called returned 0 *)
NextGuess(f) == [f EXCEPT !.k = f.k + 1, !.fpc = "guess"]

(* if (try(&wg, og)) return 1; else the loop goes on *)
ReturnToCaller ==
  /\ Running("call")
  /\ ret # << >>
  /\ IF ret = <<1>>
     THEN /\ stack' = Pop
          /\ ret' = ret
     ELSE /\ stack' = SetTop(NextGuess(Top))
          /\ ret' = << >>
  /\ UNCHANGED <<pc, stdin, rd, ig, og, report, exit_code, og_writes, text, probe>>

(* main after the top-level try returned *)
MainAfterTry ==
  /\ pc = "try"
  /\ stack = << >>
  /\ ret # << >>
  /\ IF ret = <<1>>
     THEN report' = "solved" /\ exit_code' = 0
     ELSE report' = "failed" /\ exit_code' = 1
  /\ pc' = "exit"
  /\ ret' = << >>
  /\ UNCHANGED <<stdin, rd, ig, og, stack, og_writes, text, probe>>

Next ==
  \/ ReadChar
  \/ MainAfterRead
  \/ ReduceStep
  \/ TryFail
  \/ CheckSolved
  \/ Guess
  \/ ReturnToCaller
  \/ MainAfterTry

Spec == Init /\ [][Next]_vars

FairSpec == Spec /\ WF_vars(Next)

(* choose_target_cell called on the grid read_grid built *)
ChooseProbe ==
  /\ pc = "read_ret"
  /\ ret = <<1>>
  /\ probe = << >>
  /\ probe' = choose_target_cell(ig)
  /\ UNCHANGED <<pc, stdin, rd, ig, og, stack, ret, report, exit_code, og_writes, text>>

SpecChoose == Init /\ [][ReadChar \/ ChooseProbe]_vars

(***************************************************************************)
(* Vocabulary of the properties.                                            *)
(***************************************************************************)
AllCells == RowIdx \X ColIdx
CellAt(g, c) == g.cells[c[1]][c[2]]
Flagged(cell) == Bit(cell, 0) = 1
Cands(cell) == {v \in Values : Bit(cell, v) = 1}
NumFlagged(g) == Cardinality({c \in AllCells : Flagged(CellAt(g, c))})

RowUnit(i) == {<<i, j>> : j \in ColIdx}
ColUnit(j) == {<<i, j>> : i \in RowIdx}
RegionUnit(a, b) == {c \in AllCells : c[1] \div R_ROWS = a /\ c[2] \div R_COLS = b}
Units ==
  {RowUnit(i) : i \in RowIdx} \cup {ColUnit(j) : j \in ColIdx}
  \cup {RegionUnit(a, b) : a \in 0 .. (ROWS \div R_ROWS - 1), b \in 0 .. (COLS \div R_COLS - 1)}

(* all cells solved with one value each, every digit once in every unit *)
CompleteValid(g) ==
  /\ IsComplete(g)
  /\ \A c \in AllCells : Flagged(CellAt(g, c)) /\ Cardinality(Cands(CellAt(g, c))) = 1
  /\ \A U \in Units : \A v \in Values :
       Cardinality({c \in U : get_value(CellAt(g, c)) = v}) = 1

(* the grid of clues is final once read_grid has returned 1 *)
InputRead == pc \in {"try", "exit"} /\ report # "invalid"
TopLevelReturned == pc = "try" /\ stack = << >> /\ ret # << >>
(* a call of try has just returned v *)
TryReturned(v) == pc = "try" /\ ret = <<v>>
Clues(g) == {c \in AllCells : Flagged(CellAt(g, c))}

(* C1: whenever try returns success, the grid in og is complete and every  *)
(* row, column and region holds each digit 1..9 exactly once.               *)
SolvedGridIsValid ==
  (og_writes > 0 \/ TryReturned(1) \/ report = "solved") => CompleteValid(og)

SolvedGridIsValidWitness ==
  TopLevelReturned /\ ret = <<1>> /\ ig.solved_counter < ROWS * COLS

(* a completion known for the clues: the complete grid PFull agrees with them *)
HasCompletion(g) ==
  \A c \in Clues(g) : get_value(CellAt(g, c)) = PFull[c[1] + 1][c[2] + 1]

(* C2: a grid of clues with a valid completion is solved, however many      *)
(* guesses fail on the way: a failed guess leaves the caller's grid as it   *)
(* was, and the next value is tried on that grid, only the target cell set. *)
SolvableIsSolved ==
  /\ [](TopLevelReturned /\ HasCompletion(ig) => ret = <<1>> /\ CompleteValid(og))
  /\ [][Running("call") /\ ret = <<0>> =>
          stack' = SetTop([Top EXCEPT !.k = Top.k + 1, !.fpc = "guess"])]_vars
  /\ [][Running("guess") /\ Len(stack') > Len(stack) =>
          /\ stack'[Len(stack')].wg = stack'[Len(stack)].wg
          /\ \A c \in AllCells :
               IF c = <<Top.tr, Top.tc>>
               THEN /\ Cands(CellAt(stack'[Len(stack')].wg, c)) \subseteq Cands(Top.wc)
                    /\ Cardinality(Cands(CellAt(stack'[Len(stack')].wg, c))) = 1
               ELSE CellAt(stack'[Len(stack')].wg, c) = CellAt(Top.wg, c)]_vars

SolvableIsSolvedWitness ==
  /\ Running("call") /\ ret = <<1>>
  /\ HasCompletion(ig)
  /\ \E v \in Cands(Top.wc) : v < Top.k

(* two clue cells that share a unit and hold the same digit *)
HasDuplicateClues(g) ==
  \E U \in Units :
    LET clues == {c \in U : Flagged(CellAt(g, c))}
    IN Cardinality(clues) > Cardinality({get_value(CellAt(g, c)) : c \in clues})

(* C3: with two equal clues in a row, column or region try fails, in its    *)
(* first propagation pass: reduce leaves a cell with no value and returns   *)
(* -1, and no grid is ever reported solved.                                 *)
DuplicateCluesFail ==
  InputRead /\ HasDuplicateClues(ig) =>
    /\ og_writes = 0 /\ og = grid_zero
    /\ ret # <<1>> /\ report # "solved"
    /\ Len(stack) <= 1
    /\ stack # << >> =>
         /\ Top.fpc \in {"reduce", "failed"} /\ Top.reductions = 0
         /\ Top.fpc = "failed" =>
              Top.r = -1 /\ \E c \in AllCells : Cands(CellAt(Top.wg, c)) = {}
    /\ pc = "exit" => report = "failed" /\ exit_code = 1

DuplicateCluesFailWitness ==
  pc = "exit" /\ report = "failed" /\ HasDuplicateClues(ig)

(* C4: on success every clue of the input grid is in the output grid, same  *)
(* digit, same place.                                                       *)
CluesPreserved ==
  (TryReturned(1) \/ report = "solved") =>
    \A c \in Clues(ig) : CellAt(og, c) = CellAt(ig, c)

CluesPreservedWitness ==
  report = "solved" /\ Clues(ig) # {} /\ Clues(ig) # AllCells

(* the number of solved cells of the grid the call in frame d received *)
Received(d) == IF d = 1 THEN ig.solved_counter ELSE stack[d - 1].wg.solved_counter

(* C5: try terminates; the nesting of try calls is never deeper than the    *)
(* number of cells unsolved in the input, and every recursive call receives *)
(* a grid with more solved cells than its caller received.                  *)
TryTerminates ==
  /\ [](pc = "try" => Len(stack) - 1 <= ROWS * COLS - ig.solved_counter)
  /\ [](pc = "try" => \A d \in 2 .. Len(stack) : Received(d) > Received(d - 1))
  /\ (pc = "try") ~> (pc = "exit")

TryTerminatesWitness ==
  pc = "try" /\ Len(stack) = 3 /\ ig.solved_counter < ROWS * COLS

(* C6: try ends in success, og written once with a complete grid, or in     *)
(* failure, og untouched; a call never changes the grid it was given.       *)
TwoOutcomes ==
  /\ [](ret \in {<< >>, <<0>>, <<1>>})
  /\ [](og_writes <= 1)
  /\ [](og_writes = 0 => og = grid_zero)
  /\ [](TryReturned(0) => og_writes = 0)
  /\ [](TryReturned(1) => og_writes = 1 /\ IsComplete(og))
  /\ [](report = "failed" => og = grid_zero)
  /\ [][og' # og => Running("check") /\ og' = Top.wg /\ ret' = <<1>>]_vars
  /\ [][pc = "try" => ig' = ig]_vars
  /\ [][\A d \in 1 .. (Len(stack) - 1) : stack'[d].wg = stack[d].wg]_vars

TwoOutcomesWitness ==
  pc = "exit" /\ report = "failed" /\ ~HasDuplicateClues(ig)

(* a character that is no digit 1..9, space, hyphen or newline *)
Malformed(in) == ~(in \in (CH_1 .. CH_9) \/ in = SPACE \/ in = HYPHEN \/ in = NL)

(* C7 as stated: such a character, wherever in the line it is read, makes   *)
(* read_grid return 0.                                                      *)
MalformedAnywhereRejected ==
  [][pc = "read_grid" /\ Malformed(getchar) /\ getchar # EOF =>
       pc' = "read_ret" /\ ret' = <<0>>]_vars

(* C7 amended: such a character other than NUL, read while fewer than COLS  *)
(* columns of the line are filled, makes read_grid return 0; main then      *)
(* reports invalid input and exits, and try is not called.                  *)
MalformedInCellRejected ==
  /\ [][pc = "read_grid" /\ rd.j < COLS /\ Malformed(getchar) /\ getchar # NUL =>
          pc' = "read_ret" /\ ret' = <<0>> /\ ig' = ig]_vars
  /\ [][pc = "read_ret" /\ ret = <<0>> =>
          pc' = "exit" /\ report' = "invalid" /\ exit_code' = 1 /\ stack' = << >>]_vars
  /\ [](report = "invalid" =>
          pc = "exit" /\ stack = << >> /\ og = grid_zero /\ og_writes = 0)

MalformedInCellRejectedWitness ==
  pc = "exit" /\ report = "invalid" /\ rd.i > 0 /\ rd.j > 0 /\ rd.j < COLS

(* C8: in the grid read_grid returned, in a working grid after each reduce  *)
(* call, one that returned -1 too, and in each grid a recursive try works   *)
(* on, solved_counter is the number of cells with the SOLVED flag.          *)
CounterMatchesFlags ==
  /\ pc = "read_ret" /\ ret = <<1>> => ig.solved_counter = NumFlagged(ig)
  /\ \A d \in 1 .. Len(stack) :
       stack[d].fpc \in {"reduce", "failed", "check", "call"} =>
         stack[d].wg.solved_counter = NumFlagged(stack[d].wg)

Shorter(a, b) == IF a <= b THEN a ELSE b

(* C9 as stated: no step sets a candidate bit that is clear in a working    *)
(* grid, and solved_counter never decreases.                                *)
CandidatesOnlyShrink ==
  [][\A d \in 1 .. Shorter(Len(stack), Len(stack')) :
       /\ \A c \in AllCells :
            Cands(CellAt(stack'[d].wg, c)) \subseteq Cands(CellAt(stack[d].wg, c))
       /\ stack'[d].wg.solved_counter >= stack[d].wg.solved_counter]_vars

(* C9 amended: reduce only clears candidate bits; a guess overwrites the    *)
(* target cell of the caller's grid with one value of wc, the candidates    *)
(* propagation left there, so the grid handed to the recursive try has in   *)
(* every cell a subset of what propagation left, while in the caller's grid *)
(* the bit of a later guess is set again; solved_counter never decreases.   *)
CandidatesShrinkAlongBranch ==
  [][/\ \A d \in 1 .. Shorter(Len(stack), Len(stack')) :
          /\ \A c \in AllCells :
               \/ Cands(CellAt(stack'[d].wg, c)) \subseteq Cands(CellAt(stack[d].wg, c))
               \/ /\ Running("guess") /\ d = Len(stack) /\ c = <<Top.tr, Top.tc>>
                  /\ \E v \in Cands(Top.wc) : CellAt(stack'[d].wg, c) = set_value(v)
          /\ stack'[d].wg.solved_counter >= stack[d].wg.solved_counter
     /\ Len(stack') > Len(stack) /\ stack # << >> =>
          /\ \A c \in AllCells :
               Cands(CellAt(stack'[Len(stack')].wg, c)) \subseteq
                 (IF c = <<Top.tr, Top.tc>> THEN Cands(Top.wc)
                  ELSE Cands(CellAt(Top.wg, c)))
          /\ stack'[Len(stack')].wg.solved_counter >= Top.wg.solved_counter]_vars

CandidatesShrinkAlongBranchWitness ==
  /\ Len(stack) >= 2
  /\ stack[1].fpc = "call"
  /\ \E v \in Cands(stack[1].wc) : v < stack[1].k
  /\ Top.fpc = "check"

Unsolved(g) == {c \in AllCells : ~Flagged(CellAt(g, c))}

(* C10: on a grid with an unsolved cell choose_target_cell returns an       *)
(* unsolved cell with the fewest possibles of all unsolved cells, the first *)
(* of them in row-major order.                                              *)
ChoosesLeastUnsolved ==
  probe # << >> /\ Unsolved(ig) # {} =>
    /\ probe \in Unsolved(ig)
    /\ \A c \in Unsolved(ig) :
         /\ Poss(CellAt(ig, probe)) <= Poss(CellAt(ig, c))
         /\ Poss(CellAt(ig, probe)) = Poss(CellAt(ig, c)) =>
              PassNo(probe[1], probe[2]) <= PassNo(c[1], c[2])

====
